---- MODULE Spec2Model ----
(***************************************************************************)
(* filematch: content comparison of two directory trees.                   *)
(*                                                                         *)
(* The module models the fan-out/fan-in pipeline of                        *)
(*   src/src/compare_two_directories.rs + src/src/util.rs  (variant "ctd") *)
(*   src/src/lib.rs                                        (variant "lib") *)
(* The two revisions share the producer, the channels and the join loop;   *)
(* they differ in the worker's drain loops, in where the relative rewrite  *)
(* happens and in the option slots of the result.                          *)
(* lib.rs also panics on a walk entry that is an Err, where util.rs skips  *)
(* it.  SpecCli models the flag computation of src/src/main.rs.            *)
(*                                                                         *)
(* A path is a sequence of components; an absolute path is <<root>> \o n   *)
(* for a name n below the root.  Option<T> is a sequence of length 0       *)
(* (None) or 1 (Some).  A HashMap<Hash, Vec<PathBuf>> is a function whose  *)
(* domain is its key set.                                                  *)
(***************************************************************************)
EXTENDS Integers, Sequences, FiniteSets, Bags, TLC

\* ------------------------------------------------------------------ bounds
NumThreads == 2
\* the number of files of the two trees together
MaxFiles == 2

\* ---------------------------------------------------------- the file system
Sides == {1, 2}
Other(s) == 3 - s

\* path components in lexicographic order (the order of str comparison)
Alphabet == <<".d", ".d1", ".d2", ".h", "a", "b", "c", "d1", "d2">>
Dir1 == <<"d1">>
Dir2 == <<"d2">>
\* directories whose own name begins with a dot
HiddenDir1 == <<".d1">>
HiddenDir2 == <<".d2">>
\* the directories the argument dir1 (s = 1), dir2 (s = 2) may name
Roots(s) == IF s = 1 THEN {Dir1, HiddenDir1} ELSE {Dir2, HiddenDir2}

\* names of files below a root: two plain files, a hidden file, and a file in
\* a hidden directory
FileNames == {<<"a">>, <<"b">>, <<".h">>, <<".d", "a">>}
Contents == {"x", "y"}
Trees == UNION {[ns -> Contents] : ns \in SUBSET FileNames}

Workers == 1..NumThreads

None == <<>>
Some(v) == <<v>>
EmptyMap == [h \in {} |-> <<>>]

\* ------------------------------------------------------------ pure helpers
Rank(c) == CHOOSE i \in 1..Len(Alphabet) : Alphabet[i] = c

\* Ord for PathBuf: component-wise lexicographic comparison
RECURSIVE PathLeq(_, _)
PathLeq(p, q) ==
    IF p = <<>> THEN TRUE
    ELSE IF q = <<>> THEN FALSE
    ELSE IF Rank(Head(p)) < Rank(Head(q)) THEN TRUE
    ELSE IF Rank(Head(p)) > Rank(Head(q)) THEN FALSE
    ELSE PathLeq(Tail(p), Tail(q))

RECURSIVE InsertSorted(_, _)
InsertSorted(p, s) ==
    IF s = <<>> THEN <<p>>
    ELSE IF PathLeq(p, Head(s)) THEN <<p>> \o s
    ELSE <<Head(s)>> \o InsertSorted(p, Tail(s))

\* Vec::sort on a Vec<PathBuf>
RECURSIVE SortPaths(_)
SortPaths(s) == IF s = <<>> THEN <<>> ELSE InsertSorted(Head(s), SortPaths(Tail(s)))

\* Path::strip_prefix: Some(rest) when base is a prefix of path, None (Err) otherwise
StripPrefix(path, base) ==
    IF Len(path) >= Len(base) /\ SubSeq(path, 1, Len(base)) = base
    THEN Some(SubSeq(path, Len(base) + 1, Len(path)))
    ELSE None

\* str::starts_with('.') on a file name
StartsWithDot(c) == c \in {".d", ".d1", ".d2", ".h"}

\* the digest of a byte content (equal content <=> equal digest)
Hash(c) == IF c = "x" THEN 11 ELSE 22

\* the entries of a walk: WalkDir yields the names of a directory in a fixed order
RECURSIVE WalkOrder(_)
WalkOrder(ns) ==
    IF ns = {} THEN <<>>
    ELSE LET n == CHOOSE m \in ns : \A k \in ns : PathLeq(m, k)
         IN <<n>> \o WalkOrder(ns \ {n})

\* all orders in which a HashMap/HashSet may iterate over the key set ks
Orders(ks) == {o \in [1..Cardinality(ks) -> ks] : \A i, j \in 1..Cardinality(ks) : i # j => o[i] # o[j]}

RECURSIVE FlatMap(_, _)
FlatMap(keys, F) ==
    IF keys = <<>> THEN <<>> ELSE F[Head(keys)] \o FlatMap(Tail(keys), F)

SelectKeys(o, keep) == SelectSeq(o, LAMBDA k : k \in keep)

\* HashMap::entry(h).or_default().push(p)
MapPush(map, h, p) ==
    IF h \in DOMAIN map THEN [map EXCEPT ![h] = Append(@, p)]
    ELSE map @@ (h :> <<p>>)

\* HashMap::entry(h).or_default().extend(ps)
MapExtendOverwrite(map, h, ps) == (h :> ps) @@ map
MapExtend(map, h, ps) ==
    IF h \in DOMAIN map THEN [map EXCEPT ![h] = @ \o ps]
    ELSE map @@ (h :> ps)

\* ------------------------------------------------------------------- state
VARIABLES
    variant,    \* "ctd": compare_two_directories.rs, "lib": lib.rs
    root,       \* root[s]: the arguments dir1 (s = 1) and dir2 (s = 2)
    tree,       \* tree[s]: the files below Root(s), name -> content
    relative,   \* the relative argument
    skip_hidden, \* the skip_hidden argument
    args,       \* the parsed command line (main.rs)
    proc,       \* the process of main.rs: what it wrote to stdout and stderr, and
                \* how it ended
    walkerr,    \* the absolute paths whose walk entry was an Err
    panic,      \* the panic that ended the calling thread, "none" if none
    todo,       \* todo[s]: the names the walk of side s has still to yield
    chan,       \* chan[s]: the paths queued on channel s
    open,       \* open[s]: the sender of channel s has not been dropped
    pc,         \* position of the calling thread
    joined,     \* number of handles joined so far
    wpc,        \* wpc[w]: position of worker w: in select!, in the for loop over
                \* r1 ("drain1") or r2 ("drain2"), returned Ok ("done") or Err ("err")
    wmap,       \* wmap[w][s]: the worker's map1 (s = 1) and map2 (s = 2)
    combined,   \* combined[s]: combined1 and combined2
    opts,       \* sort and the three include_* flags, bound when first read
    result,     \* the returned triple of Option<Vec<PathBuf>>
    hist        \* history: per absolute path, times received and hashed, and
                \* the insertions (worker, channel received from, map pushed to)

vars == <<variant, root, tree, relative, skip_hidden, args, proc, walkerr, panic, todo, chan, open, pc, joined, wpc,
          wmap, combined, opts, result, hist>>

Root(s) == root[s]
AbsPath(s, n) == Root(s) \o n
AllPaths == {AbsPath(s, n) : s \in Sides, n \in FileNames}

\* the content File::open(path) reads
ContentAt(path) ==
    IF <<Head(path)>> = Root(1) THEN tree[1][Tail(path)] ELSE tree[2][Tail(path)]

\* is_hidden on the entry of a path: its file name starts with a dot
IsHidden(path) == StartsWithDot(path[Len(path)])

\* filter_entry(|e| !skip_hidden || !is_hidden(e)): the predicate is evaluated on
\* every entry the walk visits from the root entry down to the file; a rejected
\* directory is not descended into
PrunedKeepsHidden(s, n) == FALSE
PrunedBelowRoot(s, n) ==
    /\ skip_hidden
    /\ \E i \in (Len(Root(s)) + 1)..Len(AbsPath(s, n)) : IsHidden(SubSeq(AbsPath(s, n), 1, i))
Pruned(s, n) ==
    /\ skip_hidden
    /\ \E i \in Len(Root(s))..Len(AbsPath(s, n)) : IsHidden(SubSeq(AbsPath(s, n), 1, i))

\* the file entries the filtered walk of side s yields
Yielded(s) == {n \in DOMAIN tree[s] : ~Pruned(s, n)}

NoOpts == [sort |-> FALSE, include_intersection |-> FALSE,
           include_unique_dir1 |-> FALSE, include_unique_dir2 |-> FALSE]
NoArgs == [directory1 |-> "dir", directory2 |-> "dir",
           sort |-> FALSE, skip_hidden |-> FALSE, relative |-> FALSE, json |-> FALSE,
           intersection |-> FALSE, dir1 |-> FALSE, dir2 |-> FALSE]
NoResult == [intersection |-> None, unique_dir1 |-> None, unique_dir2 |-> None]

NoProc == [stdout |-> <<>>, stderr |-> <<>>, exit |-> None]

InitCommon ==
    /\ tree \in [Sides -> Trees]
    /\ proc = NoProc
    /\ Cardinality(DOMAIN tree[1]) + Cardinality(DOMAIN tree[2]) <= MaxFiles
    /\ relative \in BOOLEAN
    /\ skip_hidden \in BOOLEAN
    /\ args = NoArgs
    /\ walkerr = {}
    /\ panic = "none"
    /\ todo = [s \in Sides |-> WalkOrder(Yielded(s))]
    /\ chan = [s \in Sides |-> <<>>]
    /\ open = [s \in Sides |-> TRUE]
    /\ pc = "send"
    /\ joined = 0
    /\ wpc = [w \in Workers |-> "select"]
    /\ wmap = [w \in Workers |-> [s \in Sides |-> EmptyMap]]
    /\ combined = [s \in Sides |-> EmptyMap]
    /\ opts = NoOpts
    /\ result = NoResult
    /\ hist = [p \in AllPaths |-> [recv |-> 0, hash |-> 0, ins |-> <<>>]]

PlainRoots == [s \in Sides |-> IF s = 1 THEN Dir1 ELSE Dir2]

Init == root = PlainRoots /\ variant = "ctd" /\ InitCommon
InitLib == root = PlainRoots /\ variant = "lib" /\ InitCommon

\* skip_hidden is on and each of the two arguments may name a hidden directory
InitRoot ==
    /\ root \in {r \in [Sides -> Roots(1) \cup Roots(2)] : \A s \in Sides : r[s] \in Roots(s)}
    /\ variant = "ctd"
    /\ InitCommon
    /\ skip_hidden

\* ------------------------------------------------------------ the channels
\* Sender::send on an unbounded channel
Enqueue(q, p) == Append(q, p)

\* what a successful recv leaves on the channel
DequeuePeek(q) == q
Dequeue(q) == Tail(q)

\* recv yields Err: every sender is dropped and no message is queued
DisconnectedWhenEmpty(s) == chan[s] = <<>>
Disconnected(s) == chan[s] = <<>> /\ ~open[s]

\* drop(sender) of the only sender of channel s
DropKeepsOpen(o, s) == o
Drop(o, s) == [o EXCEPT ![s] = FALSE]

\* ------------------------------------------------- the calling thread: walk
\* The caller walks dir1, then dir2, then drops sender1, then sender2.  While
\* pc = "send", todo tells how far the two walks are.

\* the receive handles of a channel alive in the calling thread: receiver1 and
\* receiver2 are locals of compare_two_directories and live until it returns
CallerReceiversMoved(s) == 0
CallerReceivers(s) == 1

\* the live receive handles of channel s: the caller's and the clone of every
\* worker that has not returned
Receivers(s) ==
    CallerReceivers(s) + Cardinality({w \in Workers : wpc[w] \notin {"done", "err"}})

\* send_file_paths: the next entry of the walk of side s is a file and is sent;
\* send_file_paths(dir2, ..) starts when send_file_paths(dir1, ..) has returned.
\* send fails when no receive handle is alive, and unwrap panics
SendFilePath(s) ==
    /\ pc = "send"
    /\ todo[s] # <<>>
    /\ s = 2 => todo[1] = <<>>
    /\ IF Receivers(s) = 0
       THEN /\ pc' = "panic"
            /\ panic' = "send"
            /\ UNCHANGED <<todo, chan>>
       ELSE /\ todo' = [todo EXCEPT ![s] = Tail(@)]
            /\ chan' = [chan EXCEPT ![s] = Enqueue(@, AbsPath(s, Head(todo[s])))]
            /\ UNCHANGED <<pc, panic>>
    /\ UNCHANGED <<variant, root, tree, relative, skip_hidden, args, proc, walkerr, open, joined, wpc,
                   wmap, combined, opts, result, hist>>

\* the walk of side s yields an Err for its next entry.  send_file_paths drops
\* it (filter_map(Result::ok)) and goes on; lib.rs panics in for_each
WalkEntryError(s) ==
    /\ pc = "send"
    /\ todo[s] # <<>>
    /\ s = 2 => todo[1] = <<>>
    /\ walkerr' = walkerr \cup {AbsPath(s, Head(todo[s]))}
    /\ IF variant = "lib"
       THEN /\ pc' = "panic"
            /\ panic' = "walk"
            /\ UNCHANGED todo
       ELSE /\ todo' = [todo EXCEPT ![s] = Tail(@)]
            /\ UNCHANGED <<pc, panic>>
    /\ UNCHANGED <<variant, root, tree, relative, skip_hidden, args, proc, chan, open, joined, wpc,
                   wmap, combined, opts, result, hist>>

\* both walks have returned
WalksDoneLeftOnly == todo[1] = <<>>
WalksDone == todo[1] = <<>> /\ todo[2] = <<>>

\* drop(sender1) after both walks; then drop(sender2)
DropSender(s) ==
    /\ IF s = 1 THEN pc = "send" /\ WalksDone
                ELSE pc = "drop2"
    /\ open' = Drop(open, s)
    /\ pc' = IF s = 1 THEN "drop2" ELSE "join"
    /\ UNCHANGED <<variant, root, tree, relative, skip_hidden, args, proc, walkerr, panic, todo, chan, joined, wpc,
                   wmap, combined, opts, result, hist>>

\* ------------------------------------------------------------- the workers
\* base1 / base2 of compare_two_directories
Base(s) == IF relative THEN Some(Root(s)) ELSE None

\* the final_path of compute_file_hash_and_insert_path
FinalPathAsSent(path, base) == path
FinalPath(path, base) ==
    IF base = None THEN path
    ELSE LET r == StripPrefix(path, base[1])
         IN IF r = None THEN path ELSE r[1]

\* compute_file_hash_and_insert_path, when the digest is computed
ComputeFileHashAndInsertPathAnyKey(map, path, base) ==
    MapPush(map, 11, FinalPath(path, base))
ComputeFileHashAndInsertPath(map, path, base) ==
    MapPush(map, Hash(ContentAt(path)), FinalPath(path, base))

\* lib.rs worker: calculate_file_hash, then entry(hash).or_default().push(path)
WorkerInsert(map, path) == MapPush(map, Hash(ContentAt(path)), path)

\* the map a select arm records a path of channel s in
ArmTarget(s) == s

\* the map a drain loop over channel s records its paths in
GroupDrainTargetMap2(s) == 2
GroupDrainTarget(s) == s
WorkerDrainTarget(s) == 2
DrainTarget(s) == IF variant = "lib" THEN WorkerDrainTarget(s) ELSE GroupDrainTarget(s)

\* one call of compute_file_hash_and_insert_path (lib.rs: calculate_file_hash and
\* push) by worker w for the path p received from channel s, recorded in map t of
\* the worker.  calculate_file_hash reads the file system: ok tells whether the
\* open and the reads succeed; on failure `?` returns the error from the worker.
\* The call reads and writes nothing another thread sees, so it is taken in one
\* step with the receive that yields p.
Process(w, p, s, t, ok) ==
    IF ok
    THEN /\ wmap' = [wmap EXCEPT ![w][t] =
                        IF variant = "lib" THEN WorkerInsert(@, p)
                        ELSE ComputeFileHashAndInsertPath(@, p, Base(s))]
         /\ hist' = [hist EXCEPT ![p].recv = @ + 1, ![p].hash = @ + 1,
                                 ![p].ins = Append(@, [w |-> w, chan |-> s, map |-> t])]
         /\ UNCHANGED wpc
    ELSE /\ wpc' = [wpc EXCEPT ![w] = "err"]
         /\ hist' = [hist EXCEPT ![p].recv = @ + 1, ![p].hash = @ + 1]
         /\ UNCHANGED wmap

\* select! over recv(r1) and recv(r2): the operation on channel s is ready with
\* a message whenever one is queued on s, whatever the state of the other channel
RecvReadyLeftFirst(s) == chan[s] # <<>> /\ (s = 1 \/ ~open[1])
RecvReady(s) == chan[s] # <<>>

\* select!: the recv on channel s is ready with a message
SelectRecv(w, s) ==
    /\ wpc[w] = "select"
    /\ RecvReady(s)
    /\ chan' = [chan EXCEPT ![s] = Dequeue(@)]
    /\ \E ok \in BOOLEAN : Process(w, Head(chan[s]), s, ArmTarget(s), ok)
    /\ UNCHANGED <<variant, root, tree, relative, skip_hidden, args, proc, walkerr, panic, todo, open, pc, joined,
                   combined, opts, result>>

\* the position of a worker in its for loop over receiver s
PcDrainSwapped(s) == IF s = 1 THEN "drain2" ELSE "drain1"
PcDrain(s) == IF s = 1 THEN "drain1" ELSE "drain2"
DrainSide(w) == IF wpc[w] = "drain1" THEN 1 ELSE 2

\* select!: the recv on channel s is ready with Err (closed and empty);
\* the worker enters the for loop over the other receiver
SelectClosed(w, s) ==
    /\ wpc[w] = "select"
    /\ Disconnected(s)
    /\ wpc' = [wpc EXCEPT ![w] = PcDrain(Other(s))]
    /\ UNCHANGED <<variant, root, tree, relative, skip_hidden, args, proc, walkerr, panic, todo, chan, open, pc, joined,
                   wmap, combined, opts, result, hist>>

\* for path in r: the iterator yields a path
DrainRecv(w) ==
    /\ wpc[w] \in {"drain1", "drain2"}
    /\ chan[DrainSide(w)] # <<>>
    /\ chan' = [chan EXCEPT ![DrainSide(w)] = Dequeue(@)]
    /\ \E ok \in BOOLEAN :
          Process(w, Head(chan[DrainSide(w)]), DrainSide(w), DrainTarget(DrainSide(w)), ok)
    /\ UNCHANGED <<variant, root, tree, relative, skip_hidden, args, proc, walkerr, panic, todo, open, pc, joined,
                   combined, opts, result>>

\* for path in r: the iterator ends (closed and empty); break; Ok((map1, map2))
DrainEnd(w) ==
    /\ wpc[w] \in {"drain1", "drain2"}
    /\ Disconnected(DrainSide(w))
    /\ wpc' = [wpc EXCEPT ![w] = "done"]
    /\ UNCHANGED <<variant, root, tree, relative, skip_hidden, args, proc, walkerr, panic, todo, chan, open, pc, joined,
                   wmap, combined, opts, result, hist>>

\* -------------------------------------------- the calling thread: join, merge
\* for (key, paths) in map { combined.entry(key).or_default().extend(paths) }
RECURSIVE MergeInto(_, _)
MergeInto(comb, map) ==
    IF DOMAIN map = {} THEN comb
    ELSE LET k == CHOOSE h \in DOMAIN map : TRUE
         IN MergeInto(MapExtend(comb, k, map[k]),
                      [h \in DOMAIN map \ {k} |-> map[h]])

\* lib.rs: path.strip_prefix(dir).unwrap() on every path of a worker map;
\* None when some unwrap panics
StripAll(map, dir) ==
    IF \E h \in DOMAIN map : \E i \in 1..Len(map[h]) : StripPrefix(map[h][i], dir) = None
    THEN None
    ELSE Some([h \in DOMAIN map |->
                 [i \in 1..Len(map[h]) |-> StripPrefix(map[h][i], dir)[1]]])

\* what the merge loop reads from worker map s of handle h, as an Option
MergeInput(h, s) ==
    IF variant = "lib" /\ relative THEN StripAll(wmap[h][s], Root(s))
    ELSE Some(wmap[h][s])

\* handle.join() returns when the thread of the handle has returned
ReturnedAlways(h) == TRUE
Returned(h) == wpc[h] \in {"done", "err"}

\* Result::unwrap on what the thread returned panics on Err(io::Error)
UnwrapFailsNever(h) == FALSE
UnwrapFails(h) == wpc[h] = "err"

\* handle.join().expect(..).unwrap() and the two merge loops, for the next handle
Join(h) ==
    /\ pc = "join"
    /\ h = joined + 1
    /\ Returned(h)
    /\ IF UnwrapFails(h)
       THEN /\ pc' = "panic"
            /\ panic' = "join_unwrap"
            /\ UNCHANGED <<joined, combined>>
       ELSE IF \E s \in Sides : MergeInput(h, s) = None
       THEN /\ pc' = "panic"
            /\ panic' = "strip_prefix"
            /\ UNCHANGED <<joined, combined>>
       ELSE /\ combined' = [s \in Sides |-> MergeInto(combined[s], MergeInput(h, s)[1])]
            /\ joined' = h
            /\ pc' = IF h = NumThreads THEN "partition" ELSE "join"
            /\ UNCHANGED panic
    /\ UNCHANGED <<variant, root, tree, relative, skip_hidden, args, proc, walkerr, todo, chan, open, wpc,
                   wmap, opts, result, hist>>

\* ------------------------------------------------------- partition and sort
\* partition_map_values; oi, o1, o2 are the iteration orders of
\* keys_intersection, map1 and map2
\* bool::then
ThenAlways(flag, v) == Some(v)
Then(flag, v) == IF flag THEN Some(v) ELSE None

\* the values of the keys of both maps: map1.get(key) chained with map2.get(key)
IntersectionValuesMap1Only(map1, map2, oi) ==
    FlatMap(oi, [k \in DOMAIN map1 \cap DOMAIN map2 |-> map1[k]])
IntersectionValues(map1, map2, oi) ==
    FlatMap(oi, [k \in DOMAIN map1 \cap DOMAIN map2 |-> map1[k] \o map2[k]])

\* the values of the keys of map that other_keys does not contain
UniqueValuesUnfiltered(map, other_keys, o) == FlatMap(o, map)
UniqueValues(map, other_keys, o) ==
    FlatMap(SelectKeys(o, DOMAIN map \ other_keys), map)

PartitionMapValuesNoRight(map1, map2, ii, i1, i2, oi, o1, o2) ==
    [intersection |-> Then(ii, IntersectionValues(map1, map2, oi)),
     unique_dir1 |-> Then(i1, UniqueValues(map1, DOMAIN map2, o1)),
     unique_dir2 |-> Then(i2, UniqueValues(map2, DOMAIN map2, o2))]
PartitionMapValues(map1, map2, ii, i1, i2, oi, o1, o2) ==
    LET keys1 == DOMAIN map1
        keys2 == DOMAIN map2
    IN [intersection |-> Then(ii, IntersectionValues(map1, map2, oi)),
        unique_dir1 |-> Then(i1, UniqueValues(map1, keys2, o1)),
        unique_dir2 |-> Then(i2, UniqueValues(map2, keys1, o2))]

\* if let Some(ref mut paths) = slot { paths.sort() }
SortSlotUnsorted(slot) == slot
SortSlot(slot) == IF slot = None THEN None ELSE Some(SortPaths(slot[1]))

SortResultNever(r, sort) == r
SortResult(r, sort) ==
    IF sort THEN [intersection |-> SortSlot(r.intersection),
                  unique_dir1 |-> SortSlot(r.unique_dir1),
                  unique_dir2 |-> SortSlot(r.unique_dir2)]
    ELSE r

\* lib.rs has no include_* parameters: compare_hashmaps computes all three
OptSets == {o \in [sort : BOOLEAN, include_intersection : BOOLEAN,
                   include_unique_dir1 : BOOLEAN, include_unique_dir2 : BOOLEAN] :
              variant = "lib" =>
                 o.include_intersection /\ o.include_unique_dir1 /\ o.include_unique_dir2}

\* partition_map_values / compare_hashmaps, the optional sort, and the return
Partition ==
    /\ pc = "partition"
    /\ \E o \in OptSets :
       \E oi \in Orders(DOMAIN combined[1] \cap DOMAIN combined[2]) :
       \E o1 \in Orders(DOMAIN combined[1]) :
       \E o2 \in Orders(DOMAIN combined[2]) :
          /\ opts' = o
          /\ result' = SortResult(
                PartitionMapValues(combined[1], combined[2], o.include_intersection,
                                   o.include_unique_dir1, o.include_unique_dir2,
                                   oi, o1, o2),
                o.sort)
    /\ pc' = "done"
    /\ UNCHANGED <<variant, root, tree, relative, skip_hidden, args, proc, walkerr, panic, todo, chan, open, joined, wpc,
                   wmap, combined, hist>>

\* ------------------------------------------------------------------ main.rs
\* what a positional argument names in the file system: a directory, a file
\* that is no directory, or nothing
PathKinds == {"dir", "file", "missing"}

\* the values Cli::parse can return: the two positional arguments (by what they
\* name) and the seven flags
CliArgs == [directory1 : PathKinds, directory2 : PathKinds,
            sort : BOOLEAN, skip_hidden : BOOLEAN, relative : BOOLEAN, json : BOOLEAN,
            intersection : BOOLEAN, dir1 : BOOLEAN, dir2 : BOOLEAN]

\* Path::is_dir: the path exists and is a directory
IsDirAlways(k) == TRUE
IsDir(k) == k = "dir"

\* let all = !args.intersection && !args.dir1 && !args.dir2
AllSetsNever(a) == FALSE
AllSets(a) == ~a.intersection /\ ~a.dir1 /\ ~a.dir2

\* let intersection = all || args.intersection; likewise dir1 and dir2
RequestedIntersection(a) == AllSets(a) \/ a.intersection
RequestedDir1(a) == AllSets(a) \/ a.dir1
RequestedDir2(a) == AllSets(a) \/ a.dir2

\* main after Cli::parse
InitCli ==
    /\ variant = "ctd"
    /\ root = PlainRoots
    /\ proc = NoProc
    /\ tree \in [Sides -> Trees]
    /\ Cardinality(DOMAIN tree[1]) + Cardinality(DOMAIN tree[2]) <= MaxFiles
    /\ args \in CliArgs
    /\ tree[1] # EmptyMap => args.directory1 = "dir"
    /\ tree[2] # EmptyMap => args.directory2 = "dir"
    /\ relative = FALSE
    /\ skip_hidden = FALSE
    /\ walkerr = {}
    /\ panic = "none"
    /\ todo = [s \in Sides |-> <<>>]
    /\ chan = [s \in Sides |-> <<>>]
    /\ open = [s \in Sides |-> TRUE]
    /\ pc = "main"
    /\ joined = 0
    /\ wpc = [w \in Workers |-> "select"]
    /\ wmap = [w \in Workers |-> [s \in Sides |-> EmptyMap]]
    /\ combined = [s \in Sides |-> EmptyMap]
    /\ opts = NoOpts
    /\ result = NoResult
    /\ hist = [p \in AllPaths |-> [recv |-> 0, hash |-> 0, ins |-> <<>>]]

\* eprintln!("Error: '{}' does not exist or is not a directory.", ..) for
\* positional argument i
NotADirectory(i) == [text |-> "does not exist or is not a directory", argument |-> i]

\* main validates directory1, then directory2; std::process::exit(1) on the
\* first that is no directory
MainValidate ==
    /\ pc = "main"
    /\ IF ~IsDir(args.directory1)
       THEN /\ proc' = [proc EXCEPT !.stderr = Append(@, NotADirectory(1)), !.exit = Some(1)]
            /\ pc' = "exit"
       ELSE IF ~IsDir(args.directory2)
       THEN /\ proc' = [proc EXCEPT !.stderr = Append(@, NotADirectory(2)), !.exit = Some(1)]
            /\ pc' = "exit"
       ELSE /\ pc' = "validated"
            /\ UNCHANGED proc
    /\ UNCHANGED <<variant, root, tree, relative, skip_hidden, args, walkerr, panic, todo, chan,
                   open, joined, wpc, wmap, combined, opts, result, hist>>

\* main computes the three output-set flags and passes them as the last three
\* arguments of the call of the core; they are the include flags of the callee.
\* (The order in which the callee binds the other boolean arguments is not
\* fixed by the call.)
MainCall ==
    /\ pc = "validated"
    /\ opts' = [opts EXCEPT !.include_intersection = RequestedIntersection(args),
                            !.include_unique_dir1 = RequestedDir1(args),
                            !.include_unique_dir2 = RequestedDir2(args)]
    /\ pc' = "called"
    /\ UNCHANGED <<variant, root, tree, relative, skip_hidden, args, proc, walkerr, panic, todo, chan,
                   open, joined, wpc, wmap, combined, result, hist>>

\* the mapping digest -> paths the core builds of the tree of side s (the paths
\* as walked; the rewrite and the hidden filter play no part in the rendering)
Grouped(s) ==
    [h \in {Hash(tree[s][n]) : n \in DOMAIN tree[s]} |->
        LET ns == SelectSeq(WalkOrder(DOMAIN tree[s]), LAMBDA n : Hash(tree[s][n]) = h)
        IN [i \in 1..Len(ns) |-> AbsPath(s, ns[i])]]

\* the call of the core returns the triple of optional lists: the partition of
\* the two mappings under the include flags main passed, sorted or not; or the
\* calling thread panics in the core on the digest failure of some file
CoreReturn ==
    /\ pc = "called"
    /\ \/ /\ \E srt \in BOOLEAN :
             \E oi \in Orders(DOMAIN Grouped(1) \cap DOMAIN Grouped(2)) :
             \E o1 \in Orders(DOMAIN Grouped(1)) :
             \E o2 \in Orders(DOMAIN Grouped(2)) :
                /\ opts' = [opts EXCEPT !.sort = srt]
                /\ result' = SortResult(
                      PartitionMapValues(Grouped(1), Grouped(2), opts.include_intersection,
                                         opts.include_unique_dir1, opts.include_unique_dir2,
                                         oi, o1, o2),
                      srt)
          /\ combined' = [s \in Sides |-> Grouped(s)]
          /\ pc' = "returned"
          /\ UNCHANGED <<panic, proc>>
       \/ /\ \E s \in Sides : tree[s] # EmptyMap
          /\ pc' = "panic"
          /\ panic' = "join_unwrap"
          /\ proc' = [proc EXCEPT !.exit = Some(101)]
          /\ UNCHANGED <<opts, result, combined>>
    /\ UNCHANGED <<variant, root, tree, relative, skip_hidden, args, walkerr, todo, chan,
                   open, joined, wpc, wmap, hist>>

\* Path::display().to_string(): the components joined by the separator
RECURSIVE Display(_)
Display(p) == IF Len(p) = 1 THEN p[1] ELSE p[1] \o "/" \o Display(Tail(p))

Displayed(ps) == [i \in 1..Len(ps) |-> Display(ps[i])]

\* "Files both in '{}' and '{}':" and "Files unique in '{}':"
HeaderBoth == "Files both in '" \o Display(Root(1)) \o "' and '" \o Display(Root(2)) \o "':"
HeaderUnique(s) == "Files unique in '" \o Display(Root(s)) \o "':"

\* the slots the output code unwraps: those whose local flag intersection, dir1,
\* dir2 is set, under the key it gives the slot in the JSON object
UnwrapsAll(a) == [intersection |-> TRUE, directory1 |-> TRUE, directory2 |-> TRUE]
Unwraps(a) == [intersection |-> RequestedIntersection(a),
               directory1 |-> RequestedDir1(a),
               directory2 |-> RequestedDir2(a)]

SlotOf(r, k) == IF k = "intersection" THEN r.intersection
                ELSE IF k = "directory1" THEN r.unique_dir1
                ELSE r.unique_dir2

\* if flag { println!(header); for path in slot.unwrap() { println!(path) } },
\* after the blank line sep: the lines printed, and whether the unwrap succeeded
Section(flag, sep, header, slot) ==
    IF ~flag THEN [lines |-> <<>>, ok |-> TRUE]
    ELSE IF slot = None THEN [lines |-> sep \o <<header>>, ok |-> FALSE]
    ELSE [lines |-> sep \o <<header>> \o Displayed(slot[1]), ok |-> TRUE]

\* the else branch of if args.json
PlainText(a, r) ==
    LET u == Unwraps(a)
        blank(b) == IF b THEN <<"">> ELSE <<>>
        s1 == Section(u.intersection, <<>>, HeaderBoth, r.intersection)
        s2 == Section(u.directory1, blank(u.intersection), HeaderUnique(1), r.unique_dir1)
        s3 == Section(u.directory2, blank(u.intersection \/ u.directory1), HeaderUnique(2),
                      r.unique_dir2)
    IN IF ~s1.ok THEN s1
       ELSE IF ~s2.ok THEN [lines |-> s1.lines \o s2.lines, ok |-> FALSE]
       ELSE [lines |-> s1.lines \o s2.lines \o s3.lines, ok |-> s3.ok]

\* the branch of if args.json: the object is printed once all its keys are
\* inserted
JsonText(a, r) ==
    LET u == Unwraps(a)
        keys == {k \in DOMAIN u : u[k]}
    IN IF \E k \in keys : SlotOf(r, k) = None
       THEN [lines |-> <<>>, ok |-> FALSE]
       ELSE [lines |-> << [json |-> [k \in keys |-> Displayed(SlotOf(r, k)[1])]] >>,
             ok |-> TRUE]

\* main renders the returned triple and returns; an unwrap of None panics
MainRender ==
    /\ pc = "returned"
    /\ LET out == IF args.json THEN JsonText(args, result) ELSE PlainText(args, result)
       IN /\ proc' = [proc EXCEPT !.stdout = @ \o out.lines,
                                  !.exit = Some(IF out.ok THEN 0 ELSE 101)]
          /\ pc' = IF out.ok THEN "rendered" ELSE "panic"
          /\ panic' = IF out.ok THEN panic ELSE "render_unwrap"
    /\ UNCHANGED <<variant, root, tree, relative, skip_hidden, args, walkerr, todo, chan,
                   open, joined, wpc, wmap, combined, opts, result, hist>>

NextCli ==
    \/ MainValidate
    \/ MainCall
    \/ CoreReturn
    \/ MainRender

SpecCli == InitCli /\ [][NextCli]_vars

\* ------------------------------------------------------------ specification
Next ==
    \/ \E s \in Sides : SendFilePath(s)
    \/ \E s \in Sides : WalkEntryError(s)
    \/ \E s \in Sides : DropSender(s)
    \/ \E w \in Workers : \E s \in Sides : SelectRecv(w, s)
    \/ \E w \in Workers : \E s \in Sides : SelectClosed(w, s)
    \/ \E w \in Workers : DrainRecv(w)
    \/ \E w \in Workers : DrainEnd(w)
    \/ \E h \in Workers : Join(h)
    \/ Partition

Spec == Init /\ [][Next]_vars
SpecLib == InitLib /\ [][Next]_vars
SpecRoot == InitRoot /\ [][Next]_vars

\* some thread that can take a step is eventually scheduled
SpecFair == Spec /\ WF_vars(Next)

TypeOK ==
    /\ pc \in {"main", "exit", "validated", "called", "returned", "rendered", "send", "drop2", "join", "partition", "done", "panic"}
    /\ panic \in {"none", "send", "walk", "join_unwrap", "strip_prefix", "render_unwrap"}
    /\ (pc = "panic") <=> (panic # "none")
    /\ \A w \in Workers : wpc[w] \in {"select", "drain1", "drain2", "done", "err"}

\* ================================================================== claims
Range(sq) == {sq[i] : i \in DOMAIN sq}
Occurrences(sq, e) == Cardinality({i \in DOMAIN sq : sq[i] = e})
BagOfSeq(sq) == [e \in Range(sq) |-> Occurrences(sq, e)]

\* the files of side s the walk yields: not pruned, and no Err for their entry
Files(s) == {n \in Yielded(s) : AbsPath(s, n) \notin walkerr}
AllFiles == {<<s, n>> : s \in Sides, n \in FileNames} \cap {f \in Sides \X FileNames : f[2] \in Files(f[1])}

\* the path under which the file n of side s is reported
OutPath(s, n) == IF relative THEN n ELSE AbsPath(s, n)

\* some file of the other side has the content of file n of side s
Common(s, n) == \E m \in Files(Other(s)) : tree[Other(s)][m] = tree[s][n]

AllFlags == opts.include_intersection /\ opts.include_unique_dir1 /\ opts.include_unique_dir2
UniqueSlot(s) == IF s = 1 THEN result.unique_dir1 ELSE result.unique_dir2

AllReturned == \A w \in Workers : wpc[w] = "done"
MapEntries(map) == UNION {{<<h, i>> : i \in 1..Len(map[h])} : h \in DOMAIN map}

\* C1 (partition completeness): when the comparison has returned with all three
\* flags on, every file of a tree is reported in exactly one of the intersection
\* and the unique list of its own side, and once.  Entries of the intersection
\* that belong to files of the other tree reported under the same (relative)
\* path are not counted for the file.
C1_PartitionCompleteness ==
    (pc = "done" /\ AllFlags) =>
        \A f \in AllFiles :
            LET s == f[1]
                p == OutPath(s, f[2])
                foreign == Cardinality({m \in Files(Other(s)) :
                               OutPath(Other(s), m) = p /\ Common(Other(s), m)})
                i == Occurrences(result.intersection[1], p) - foreign
                u == Occurrences(UniqueSlot(s)[1], p)
            IN (i = 1 /\ u = 0) \/ (i = 0 /\ u = 1)

\* C2 (exactly-once processing): no path is received, hashed or inserted more
\* than once; and when all workers have returned without a digest failure, every
\* path of both trees was received, hashed and inserted exactly once, it stands
\* under its digest in the map of its side of exactly one worker, and the worker
\* maps hold no other entry.
C2_ExactlyOnce ==
    /\ \A p \in AllPaths : hist[p].recv <= 1 /\ hist[p].hash <= 1 /\ Len(hist[p].ins) <= 1
    /\ AllReturned =>
         /\ \A f \in AllFiles :
              LET p == AbsPath(f[1], f[2])
                  h == Hash(tree[f[1]][f[2]])
                  fp == FinalPath(p, Base(f[1]))
              IN /\ hist[p].recv = 1 /\ hist[p].hash = 1 /\ Len(hist[p].ins) = 1
                 /\ Cardinality({w \in Workers : h \in DOMAIN wmap[w][f[1]]
                                    /\ fp \in Range(wmap[w][f[1]][h])}) = 1
                 /\ \A w \in Workers : h \in DOMAIN wmap[w][f[1]] =>
                        Occurrences(wmap[w][f[1]][h], fp) <= 1
         /\ Cardinality(UNION {{<<w, s, e>> : e \in MapEntries(wmap[w][s])} :
                                  w \in Workers, s \in Sides})
              = Cardinality(AllFiles)

C2_Witness ==
    /\ AllReturned
    /\ Cardinality(AllFiles) = MaxFiles
    /\ \A w \in Workers : \E s \in Sides : wmap[w][s] # EmptyMap

\* C3 (worker exit condition): a worker that has returned Ok sees both channels
\* closed and empty; and a worker that drains one channel after it saw the other
\* closed returns only in a step taken when the drained channel is closed and empty.
C3_WorkerExit ==
    /\ [](\A w \in Workers : wpc[w] = "done" =>
              \A s \in Sides : ~open[s] /\ chan[s] = <<>>)
    /\ [][\A w \in Workers : (wpc[w] # "done" /\ wpc'[w] = "done") =>
              /\ wpc[w] \in {"drain1", "drain2"}
              /\ ~open[DrainSide(w)] /\ chan[DrainSide(w)] = <<>>]_vars

\* a worker saw channel 1 closed while channel 2 is still open: it waits in the
\* for loop over receiver 2, the other worker has recorded a path
C3_Witness ==
    \E w \in Workers :
        /\ wpc[w] = "drain2"
        /\ ~open[1] /\ open[2] /\ chan[2] = <<>>
        /\ \E v \in Workers \ {w} : wmap[v][1] # EmptyMap

\* C4 (side fidelity): every path a worker has recorded, in a select arm or in
\* a drain loop, was pushed to the map of the channel it was received from, which
\* is the channel of its tree.
C4_SideFidelity ==
    \A p \in AllPaths : \A i \in DOMAIN hist[p].ins :
        /\ hist[p].ins[i].map = hist[p].ins[i].chan
        /\ Root(hist[p].ins[i].chan) = <<Head(p)>>

\* C5 (termination): under fair scheduling every worker eventually returns
\* (its maps or the digest error) and the caller eventually returns a result,
\* or panics on the digest error of a worker.
C5_Termination ==
    <>(/\ \A w \in Workers : wpc[w] \in {"done", "err"}
       /\ pc = "done" \/ (pc = "panic" /\ \E w \in Workers : wpc[w] = "err"))

\* the right tree is empty and the left one holds two files: all workers
\* returned and the caller returned a result
C5_Witness ==
    /\ pc = "done"
    /\ Files(2) = {}
    /\ Cardinality(Files(1)) = 2
    /\ \E w \in Workers : wmap[w][1] # EmptyMap /\ wpc[w] = "done"

\* the entries of all worker maps of side s under digest h, as a bag
RECURSIVE WorkerBag(_, _, _)
WorkerBag(n, s, h) ==
    IF n = 0 THEN EmptyBag
    ELSE WorkerBag(n - 1, s, h) (+)
         (IF h \in DOMAIN wmap[n][s] THEN BagOfSeq(wmap[n][s][h]) ELSE EmptyBag)

\* the mapping one thread builds from the walk of side s, one path after the other
RECURSIVE SingleThreaded(_, _, _)
SingleThreaded(s, names, map) ==
    IF names = <<>> THEN map
    ELSE SingleThreaded(s, Tail(names),
            MapPush(map, Hash(tree[s][Head(names)]), OutPath(s, Head(names))))

Digests == {Hash(c) : c \in Contents}
MapBag(map, h) == IF h \in DOMAIN map THEN BagOfSeq(map[h]) ELSE EmptyBag

\* C6 (merge is an exact union): after the merge of all handles, the paths of a
\* global mapping under a digest are, as a multiset, the union of the paths the
\* worker maps of that side hold under the digest, and those a single-threaded
\* pass over the tree of that side records under it.
C6_MergeExactUnion ==
    (pc \in {"partition", "done"}) =>
        \A s \in Sides : \A h \in Digests :
            /\ MapBag(combined[s], h) = WorkerBag(NumThreads, s, h)
            /\ MapBag(combined[s], h) =
                  MapBag(SingleThreaded(s, WalkOrder(Files(s)), EmptyMap), h)
            /\ (h \in DOMAIN combined[s]) =>
                  \E w \in Workers : h \in DOMAIN wmap[w][s]

RECURSIVE BagSum(_, _)
BagSum(ks, B) ==
    IF ks = {} THEN EmptyBag
    ELSE LET k == CHOOSE x \in ks : TRUE IN B[k] (+) BagSum(ks \ {k}, B)

\* C7 (intersection): a requested intersection holds, as a multiset, exactly the
\* paths both global mappings store under the digests that are keys of both.
C7_Intersection ==
    (pc = "done" /\ opts.include_intersection) =>
        /\ result.intersection # None
        /\ BagOfSeq(result.intersection[1]) =
              BagSum(DOMAIN combined[1] \cap DOMAIN combined[2],
                     [k \in DOMAIN combined[1] \cap DOMAIN combined[2] |->
                         BagOfSeq(combined[1][k]) (+) BagOfSeq(combined[2][k])])

\* the intersection holds the same relative path twice, once for each tree
C7_Witness ==
    /\ pc = "done"
    /\ opts.include_intersection
    /\ relative
    /\ Len(result.intersection[1]) = 2
    /\ result.intersection[1][1] = result.intersection[1][2]

\* C8 (unique sides): a requested unique_dir1 holds, as a multiset, exactly the
\* paths the left mapping stores under digests that are no key of the right
\* mapping, and a requested unique_dir2 those of the right mapping under digests
\* that are no key of the left mapping.
C8_UniqueSides ==
    (pc = "done") =>
        \A s \in Sides :
            (IF s = 1 THEN opts.include_unique_dir1 ELSE opts.include_unique_dir2) =>
                /\ UniqueSlot(s) # None
                /\ BagOfSeq(UniqueSlot(s)[1]) =
                      BagSum(DOMAIN combined[s] \ DOMAIN combined[Other(s)],
                             [k \in DOMAIN combined[s] \ DOMAIN combined[Other(s)] |->
                                 BagOfSeq(combined[s][k])])

\* both unique lists are requested and hold the same relative path: the files
\* of that path differ in content
C8_Witness ==
    /\ pc = "done"
    /\ opts.include_unique_dir1 /\ opts.include_unique_dir2
    /\ relative
    /\ UniqueSlot(1)[1] # <<>>
    /\ UniqueSlot(1)[1] = UniqueSlot(2)[1]

\* C9 (flag gating): in the returned triple a slot is Some (of a possibly empty
\* list) exactly if its include flag is true, and None otherwise.
C9_FlagGating ==
    (pc = "done") =>
        /\ (result.intersection # None) <=> opts.include_intersection
        /\ (result.unique_dir1 # None) <=> opts.include_unique_dir1
        /\ (result.unique_dir2 # None) <=> opts.include_unique_dir2

\* exactly one flag is on and its list is empty: both files are in the intersection
C9_Witness ==
    /\ pc = "done"
    /\ opts.include_unique_dir1 /\ ~opts.include_intersection /\ ~opts.include_unique_dir2
    /\ result.unique_dir1 = Some(<<>>)
    /\ result.intersection = None /\ result.unique_dir2 = None
    /\ combined[1] # EmptyMap /\ combined[2] # EmptyMap

\* two files of side s have the same content and no file of the other side has it
Duplicates(s) ==
    {n \in Files(s) : ~Common(s, n)
                      /\ \E m \in Files(s) \ {n} : tree[s][m] = tree[s][n]}

\* C10 (duplicates within a side): files of one side whose common content no
\* file of the other side has are all in the unique list of their side, once
\* each, and contribute no entry to the intersection: the intersection holds
\* their path only for files of the other side reported under the same path.
C10_DuplicateGrouping ==
    (pc = "done" /\ AllFlags) =>
        \A s \in Sides : \A n \in Duplicates(s) :
            /\ Occurrences(UniqueSlot(s)[1], OutPath(s, n)) = 1
            /\ Occurrences(result.intersection[1], OutPath(s, n)) =
                  Cardinality({m \in Files(Other(s)) :
                      OutPath(Other(s), m) = OutPath(s, n) /\ Common(Other(s), m)})
            /\ Occurrences(UniqueSlot(Other(s))[1], OutPath(s, n)) =
                  Cardinality({m \in Files(Other(s)) :
                      OutPath(Other(s), m) = OutPath(s, n) /\ ~Common(Other(s), m)})

\* the two duplicates were hashed by different workers
C10_Witness ==
    /\ pc = "done" /\ AllFlags
    /\ Duplicates(1) # {}
    /\ \A w \in Workers : wmap[w][1] # EmptyMap

\* C11 (digest failure is fatal): once the digest computation failed in some
\* worker, the comparison never reaches the partition and returns no result,
\* whatever the other workers recorded and whatever was merged before.
C11_DigestFailureFatal ==
    (\E w \in Workers : wpc[w] = "err") =>
        /\ pc \notin {"partition", "done"}
        /\ result = NoResult

\* the second worker failed after the maps of the first, which recorded a path,
\* were merged: the caller panics on the unwrap of the second join
C11_Witness ==
    /\ pc = "panic" /\ panic = "join_unwrap"
    /\ joined = 1
    /\ \E s \in Sides : combined[s] # EmptyMap
    /\ wpc[2] = "err"

\* a file whose name begins with a dot, or a file below a directory whose name
\* begins with a dot
HiddenName(n) == \E i \in 1..Len(n) : StartsWithDot(n[i])

\* the path p of side s was sent on its channel
Sent(s, p) == p \in Range(chan[s]) \/ hist[p].recv > 0

Slots == {result.intersection, result.unique_dir1, result.unique_dir2}

\* C12 (hidden-file exclusion): with skip_hidden, a hidden file of either tree is
\* never yielded by the walk, never queued on a channel, never received, and its
\* path is in none of the three outputs; without skip_hidden, once both walks
\* have returned every hidden file whose entry was no Err has been sent.
C12_HiddenExclusion ==
    \A s \in Sides : \A n \in DOMAIN tree[s] :
        HiddenName(n) =>
            IF skip_hidden
            THEN /\ n \notin Range(todo[s])
                 /\ \A t \in Sides : ~Sent(t, AbsPath(s, n))
                 /\ \A slot \in Slots : slot # None =>
                        /\ AbsPath(s, n) \notin Range(slot[1])
                        /\ n \notin Range(slot[1])
            ELSE (WalksDone /\ AbsPath(s, n) \notin walkerr) => Sent(s, AbsPath(s, n))

\* skip_hidden is on, the left tree holds a hidden file with the content of a
\* plain file of the right tree: the right file is reported as unique
C12_Witness ==
    /\ skip_hidden
    /\ pc = "done" /\ AllFlags
    /\ \E n \in DOMAIN tree[1] : \E m \in Files(2) :
          /\ HiddenName(n) /\ tree[1][n] = tree[2][m]
          /\ OutPath(2, m) \in Range(result.unique_dir2[1])
    /\ result.intersection = Some(<<>>)

\* the path of file n of side s is reported as the claim demands: relative to
\* Root(s) and without a root in front, or absolute below Root(s)
Rewritten(p, s, n) ==
    IF relative
    THEN /\ p = n
         /\ Root(s) \o p = AbsPath(s, n)
         /\ \A t \in Sides : StripPrefix(p, Root(t)) = None
    ELSE /\ p = AbsPath(s, n)
         /\ StripPrefix(p, Root(s)) = Some(n)

\* C13 (relative-path rewrite): every path of a returned list is the path of a
\* walked file, rewritten against the root of the tree of that file and without
\* a root in front when relative is on, and absolute below the root of its tree,
\* as the walk sent it, when relative is off.
C13_RelativeRewrite ==
    (pc = "done") =>
        \A slot \in Slots : slot # None =>
            \A i \in DOMAIN slot[1] :
                \E f \in AllFiles : Rewritten(slot[1][i], f[1], f[2])

\* relative is on; a file below a directory of the left tree and a file of the
\* right tree are reported, each relative to its root
C13_Witness ==
    /\ pc = "done" /\ relative
    /\ result.unique_dir1 = Some(<< <<".d", "a">> >>)
    /\ result.unique_dir2 # None /\ result.unique_dir2 # Some(<<>>)

\* the paths a map holds
MapPaths(map) == UNION {Range(map[h]) : h \in DOMAIN map}

\* C14 (path-rewrite failure is recovered locally): the caller never panics on a
\* strip_prefix that failed; when relative is on, a path that is not below the
\* root it is rewritten against stays in a mapping in its absolute form, and
\* when all workers have returned their maps the caller goes on to a result.
C14_RewriteFailureRecovered ==
    /\ panic # "strip_prefix"
    /\ (relative /\ pc \in {"partition", "done"}) =>
          \A s \in Sides : \A p \in AllPaths :
              (Len(hist[p].ins) > 0 /\ hist[p].ins[1].map = s
                 /\ StripPrefix(p, Root(s)) = None)
              => p \in MapPaths(combined[s])

\* C15 (traversal entry errors are recovered locally): the caller never panics
\* on an entry of the walk that is an Err; such an entry is not sent, and once
\* both walks have returned every other file the walks yield has been sent.
C15_WalkErrorsRecovered ==
    /\ panic # "walk"
    /\ \A s \in Sides : \A p \in walkerr : ~Sent(s, p)
    /\ WalksDone =>
          \A s \in Sides : \A n \in Yielded(s) :
              AbsPath(s, n) \notin walkerr => Sent(s, AbsPath(s, n))

\* the triple a single pass computes from the walked files and the options
\* alone: one thread records the files of each tree in walk order, the two
\* mappings are partitioned along a fixed key order, the lists are sorted
ExpectedSorted ==
    LET m1 == SingleThreaded(1, WalkOrder(Files(1)), EmptyMap)
        m2 == SingleThreaded(2, WalkOrder(Files(2)), EmptyMap)
        oi == CHOOSE o \in Orders(DOMAIN m1 \cap DOMAIN m2) : TRUE
        o1 == CHOOSE o \in Orders(DOMAIN m1) : TRUE
        o2 == CHOOSE o \in Orders(DOMAIN m2) : TRUE
    IN SortResult(PartitionMapValues(m1, m2, opts.include_intersection,
                                     opts.include_unique_dir1, opts.include_unique_dir2,
                                     oi, o1, o2), TRUE)

\* C16 (determinism of sorted output): with sort on, the returned triple is a
\* function of the walked files and the options: it is the triple of the single
\* pass, whichever worker hashed which path, in whatever order the workers took
\* their steps and returned, in whatever order the maps were iterated, and for
\* every number of workers.
C16_SortedDeterminism ==
    (pc = "done" /\ opts.sort) => result = ExpectedSorted

\* the two files of the left tree were hashed by different workers, the later
\* one in walk order by the first worker, whose map is merged first
C16_Witness ==
    /\ pc = "done" /\ opts.sort /\ AllFlags
    /\ Files(1) = {<<"a">>, <<"b">>}
    /\ Len(result.unique_dir1[1]) = 2
    /\ hist[AbsPath(1, <<"b">>)].ins[1].w = 1
    /\ hist[AbsPath(1, <<"a">>)].ins[1].w = 2

\* C17 as stated (join barrier before merge): the merge of a handle starts, and
\* a global mapping changes, only in a step taken when all workers have returned.
C17_JoinBarrier ==
    [][(joined' # joined \/ combined' # combined) =>
          \A w \in Workers : wpc[w] \in {"done", "err"}]_vars

\* C17 as amended (join before merge, handle by handle): the global mappings
\* change only in the merge of the next handle in spawn order, which starts only
\* after the worker of that handle has returned its maps, when both channels are
\* closed and empty; workers of later handles may not have returned yet.  The
\* partition starts only after all workers have returned and were merged.
C17_JoinBeforeMerge ==
    /\ [][(joined' # joined \/ combined' # combined) =>
             /\ joined' = joined + 1
             /\ wpc[joined'] = "done"
             /\ \A s \in Sides : ~open[s] /\ chan[s] = <<>>
             /\ \A h \in Workers : h <= joined => wpc[h] = "done"]_vars
    /\ [](pc \in {"partition", "done"} => (AllReturned /\ joined = NumThreads))

\* the maps of the first worker are merged while the second has not returned
C17_Witness ==
    /\ joined = 1
    /\ \E s \in Sides : combined[s] # EmptyMap
    /\ wpc[2] \in {"select", "drain1", "drain2"}

\* the walk of side s has yielded its last entry
WalkCompleted(s) == todo[s] = <<>>
\* the walk of side s has yielded an entry
WalkStarted(s) == Len(todo[s]) < Cardinality(Yielded(s))

\* C18 as stated (channel closure timing): the left channel is closed as soon as
\* the left walk has sent its last path, before the right walk yields an entry,
\* and a channel is closed only when its walk has completed.
C18_ClosedWhenWalkCompletes ==
    /\ WalkStarted(2) => ~open[1]
    /\ \A s \in Sides : ~open[s] => WalkCompleted(s)

\* C18 as amended: both channels stay open until both walks have completed; then
\* the caller closes the left channel and after it the right one, before it
\* joins the first handle.
C18_ClosedAfterBothWalks ==
    /\ \A s \in Sides : ~open[s] => (WalkCompleted(1) /\ WalkCompleted(2))
    /\ pc = "send" => (open[1] /\ open[2])
    /\ ~open[2] => ~open[1]
    /\ pc \in {"join", "partition", "done"} => (~open[1] /\ ~open[2])

\* the left walk has sent its last path, the right walk has sent a path, and
\* the left channel is still open
C18_Witness ==
    /\ pc = "send"
    /\ Yielded(1) # {} /\ WalkCompleted(1)
    /\ \E n \in Files(2) : Sent(2, AbsPath(2, n))
    /\ open[1]

C20_CliDefaults ==
    (pc = "called") =>
        IF ~args.intersection /\ ~args.dir1 /\ ~args.dir2
        THEN opts.include_intersection /\ opts.include_unique_dir1 /\ opts.include_unique_dir2
        ELSE /\ opts.include_intersection = args.intersection
             /\ opts.include_unique_dir1 = args.dir1
             /\ opts.include_unique_dir2 = args.dir2

\* no set flag was given and all three sets are requested
C20_Witness ==
    /\ pc = "called"
    /\ ~args.intersection /\ ~args.dir1 /\ ~args.dir2
    /\ AllFlags

\* C21 (CLI directory validation): main goes on to the call of the core only
\* if both positional arguments are directories; otherwise, once it has
\* validated, the process has exited with status 1 after one line on stderr that
\* names the first argument that is no directory, no flag was passed to the
\* core, no result was returned and nothing was printed on stdout.
C21_DirectoryValidation ==
    /\ pc \in {"validated", "called", "rendered"} =>
          (args.directory1 = "dir" /\ args.directory2 = "dir")
    /\ (pc # "main" /\ (args.directory1 # "dir" \/ args.directory2 # "dir")) =>
          /\ pc = "exit"
          /\ proc.exit = Some(1)
          /\ proc.stderr = << NotADirectory(IF args.directory1 # "dir" THEN 1 ELSE 2) >>
          /\ proc.stdout = <<>>
          /\ opts = NoOpts /\ result = NoResult

\* the first argument is a directory and the second is a file
C21_Witness ==
    /\ pc = "exit"
    /\ args.directory1 = "dir" /\ args.directory2 = "file"
    /\ proc.stderr = << NotADirectory(2) >>

\* C22 (plain-text headers): in plain-text mode the header of a section is
\* among the printed lines exactly when its set was requested and holds at
\* least one path; a requested set without paths prints no header.
C22_HeaderOnlyWhenNonEmpty ==
    (pc = "rendered" /\ ~args.json) =>
        /\ HeaderBoth \in Range(proc.stdout) <=>
              (RequestedIntersection(args) /\ result.intersection # None
                 /\ result.intersection[1] # <<>>)
        /\ HeaderUnique(1) \in Range(proc.stdout) <=>
              (RequestedDir1(args) /\ result.unique_dir1 # None
                 /\ result.unique_dir1[1] # <<>>)
        /\ HeaderUnique(2) \in Range(proc.stdout) <=>
              (RequestedDir2(args) /\ result.unique_dir2 # None
                 /\ result.unique_dir2[1] # <<>>)

IsSorted(ps) == \A i \in 1..(Len(ps) - 1) : PathLeq(ps[i], ps[i + 1])

\* the triple before the optional sort, for one iteration order of the key sets
Unsorted(oi, o1, o2) ==
    PartitionMapValues(combined[1], combined[2], opts.include_intersection,
                       opts.include_unique_dir1, opts.include_unique_dir2, oi, o1, o2)

\* C23 (sorting): for the returned triple there are iteration orders of the key
\* sets with whose partition it agrees as follows.  With sort requested, every
\* slot that is present holds the same paths with the same multiplicities as
\* the partition, in non-decreasing path order, each list on its own (the
\* intersection as one list of left and right paths); a slot that is absent in
\* the partition is absent in the result.  Without sort the result is the
\* partition itself, in its order.
C23_Sorting ==
    (pc = "done") =>
        \E oi \in Orders(DOMAIN combined[1] \cap DOMAIN combined[2]) :
        \E o1 \in Orders(DOMAIN combined[1]) :
        \E o2 \in Orders(DOMAIN combined[2]) :
            LET u == Unsorted(oi, o1, o2)
            IN IF opts.sort
               THEN \A k \in DOMAIN result :
                       IF u[k] = None THEN result[k] = None
                       ELSE /\ result[k] # None
                            /\ BagOfSeq(result[k][1]) = BagOfSeq(u[k][1])
                            /\ IsSorted(result[k][1])
               ELSE result = u

\* sorted: the two files of the left tree differ in content and are listed in
\* path order, the intersection is present and unique_dir2 absent
C23_Witness ==
    /\ pc = "done" /\ opts.sort /\ ~relative
    /\ opts.include_intersection /\ ~opts.include_unique_dir2
    /\ tree[1] = (<<"a">> :> "y") @@ (<<"b">> :> "x")
    /\ result.unique_dir1 = Some(<< AbsPath(1, <<"a">>), AbsPath(1, <<"b">>) >>)
    /\ result.unique_dir2 = None

\* worker w has not returned
Idle(w) == wpc[w] \in {"select", "drain1", "drain2"}

\* worker w can take its next step by receiving the path queued first on channel s
CanTakeFrom(w, s) ==
    \/ ENABLED SelectRecv(w, s)
    \/ wpc[w] = PcDrain(s) /\ ENABLED DrainRecv(w)

\* the paths a step takes from the channels and hands to a worker
Received == {p \in AllPaths : hist'[p].recv # hist[p].recv}

\* C24 (no head-of-line blocking): while both channels are open every worker
\* that has not returned waits in select!, and whenever a path is queued on a
\* channel every worker that has not returned can take its next step by
\* receiving from that channel, whether the other channel is empty or not.
\* Every step of a worker that takes a path takes one path, the first of one
\* channel, and leaves the other channel as it is.
C24_NoHeadOfLineBlocking ==
    /\ [](\A w \in Workers :
             /\ (open[1] /\ open[2] /\ Idle(w)) => wpc[w] = "select"
             /\ \A s \in Sides : (Idle(w) /\ chan[s] # <<>>) => CanTakeFrom(w, s))
    /\ [][(Received # {} \/ \E s \in Sides : Len(chan'[s]) < Len(chan[s])) =>
             \E s \in Sides :
                /\ chan[s] # <<>>
                /\ chan'[s] = Tail(chan[s])
                /\ chan'[Other(s)] = chan[Other(s)]
                /\ Received = {Head(chan[s])}
                /\ hist'[Head(chan[s])].recv = hist[Head(chan[s])].recv + 1]_vars

\* both channels are open, the left one is empty and the right one holds a path:
\* a waiting worker takes the path of the right channel
C24_Witness ==
    /\ open[1] /\ open[2]
    /\ chan[1] = <<>>
    /\ chan[2] # <<>>
    /\ \E w \in Workers : wpc[w] = "select" /\ CanTakeFrom(w, 2)
    /\ \E p \in AllPaths : hist[p].recv = 1

\* the paths whose digest computation a step starts
Hashed == {p \in AllPaths : hist'[p].hash = hist[p].hash + 1}

\* the paths under which the walked path p can be recorded
FinalPaths(p) == {p} \cup {FinalPath(p, Base(s)) : s \in Sides}

\* the number of paths the worker mappings hold
Held == Cardinality(UNION {{<<w, t, e>> : e \in MapEntries(wmap[w][t])} :
                              w \in Workers, t \in Sides})
Insertions == UNION {{<<p, i>> : i \in 1..Len(hist[p].ins)} : p \in AllPaths}

\* C25 (digest before insert, no insert on failure): a mapping of a worker
\* changes only in a step that computes the digest of one received path with
\* success, and then by the push of that path under the digest of its content
\* onto one mapping, the other mapping staying as it is.  A step in which the
\* digest computation fails leaves both mappings of the worker unchanged and
\* makes the worker return the error; a worker that has returned an error
\* receives no path and changes no mapping any more.  At any time every
\* insertion is recorded under the digest of the content of its path, no path
\* was inserted more often than its digest was computed, and the mappings hold
\* nothing but these insertions.
C25_DigestBeforeInsert ==
    /\ [][\A w \in Workers :
             /\ wmap'[w] # wmap[w] =>
                   /\ wpc'[w] = wpc[w]
                   /\ \E p \in Hashed : \E t \in Sides : \E q \in FinalPaths(p) :
                         /\ Hashed = {p}
                         /\ wmap'[w][t] = MapPush(wmap[w][t], Hash(ContentAt(p)), q)
                         /\ wmap'[w][Other(t)] = wmap[w][Other(t)]
                         /\ Len(hist'[p].ins) = Len(hist[p].ins) + 1
                         /\ SubSeq(hist'[p].ins, 1, Len(hist[p].ins)) = hist[p].ins
                         /\ hist'[p].ins[Len(hist'[p].ins)].w = w
                         /\ hist'[p].ins[Len(hist'[p].ins)].map = t
             /\ (wpc'[w] = "err" /\ wpc[w] # "err") =>
                   /\ wmap'[w] = wmap[w]
                   /\ \E p \in Hashed : Hashed = {p} /\ hist'[p].ins = hist[p].ins
             /\ wpc[w] = "err" => (wpc'[w] = "err" /\ wmap'[w] = wmap[w])]_vars
    /\ [](/\ \A w \in Workers : wpc[w] = "err" =>
                /\ \A s \in Sides : ~ENABLED SelectRecv(w, s)
                /\ ~ENABLED DrainRecv(w)
          /\ \A p \in AllPaths :
                /\ Len(hist[p].ins) <= hist[p].hash
                /\ \A i \in 1..Len(hist[p].ins) :
                      LET e == hist[p].ins[i]
                      IN /\ Hash(ContentAt(p)) \in DOMAIN wmap[e.w][e.map]
                         /\ \E q \in FinalPaths(p) :
                               q \in Range(wmap[e.w][e.map][Hash(ContentAt(p))])
          /\ Held = Cardinality(Insertions))

\* a worker recorded one path and then returned the error of the digest
\* computation of a second path, which no mapping holds
C25_Witness ==
    \E w \in Workers : \E p \in AllPaths :
        /\ wpc[w] = "err"
        /\ wmap[w][1] # EmptyMap
        /\ hist[p].hash = 1 /\ hist[p].ins = <<>>
        /\ Held = 1

ClosedAndEmpty(s) == ~open[s] /\ chan[s] = <<>>

\* C26 (exclusive drain): whenever a worker is in its loop over r1 alone, the
\* right channel is closed and empty, and whenever it is in its loop over r2
\* alone, the left channel is closed and empty; a channel that is closed and
\* empty stays closed and empty.  So no path is queued, now or later, on the
\* channel a draining worker has stopped watching.
C26_ExclusiveDrain ==
    /\ [](\A w \in Workers :
             /\ wpc[w] = "drain1" => ClosedAndEmpty(2)
             /\ wpc[w] = "drain2" => ClosedAndEmpty(1))
    /\ [][\A s \in Sides : ClosedAndEmpty(s) => ClosedAndEmpty(s)']_vars

\* a worker has seen the left channel closed and loops over the right channel,
\* which still holds a path and whose sender still lives
C26_Witness ==
    \E w \in Workers :
        /\ wpc[w] = "drain2"
        /\ ClosedAndEmpty(1)
        /\ open[2] /\ chan[2] # <<>>

\* the number of paths sent on channel s so far
SentCount(s) == Cardinality({n \in DOMAIN tree[s] : Sent(s, AbsPath(s, n))})

Emitted == Len(result.intersection[1]) + Len(result.unique_dir1[1]) + Len(result.unique_dir2[1])

\* C27 (count conservation): when the comparison has returned with all three
\* flags on, no worker having failed on a digest, the lengths of intersection,
\* unique_dir1 and unique_dir2 add up to the number of paths sent on the left
\* channel plus the number sent on the right channel, with relative on or off.
C27_CountConservation ==
    (pc = "done" /\ AllFlags /\ \A w \in Workers : wpc[w] = "done") =>
        Emitted = SentCount(1) + SentCount(2)

\* two files of the left tree with the same content were recorded by different
\* workers and both are emitted, under relative paths
C27_Witness ==
    /\ pc = "done" /\ AllFlags /\ relative
    /\ SentCount(1) = 2 /\ SentCount(2) = 0
    /\ \A w \in Workers : wmap[w][1] # EmptyMap
    /\ Cardinality(DOMAIN combined[1]) = 1
    /\ Emitted = 2

\* an output slot as a multiset
SlotBag(slot) == IF slot = None THEN None ELSE Some(BagOfSeq(slot[1]))

\* C28 (symmetry of the partition): for the two global mappings handed to the
\* partition, for all values of the three flags and all iteration orders of the
\* key sets: the partition of (map2, map1) under the flags (ii, i2, i1) has as
\* unique_dir1 the multiset the partition of (map1, map2) under (ii, i1, i2)
\* has as unique_dir2, as unique_dir2 the multiset that one has as
\* unique_dir1, and the same intersection as a multiset.
C28_PartitionSymmetry ==
    (pc \in {"partition", "done"}) =>
        LET m1 == combined[1]
            m2 == combined[2]
        IN \A ii, i1, i2 \in BOOLEAN :
           \A oi, oj \in Orders(DOMAIN m1 \cap DOMAIN m2) :
           \A o1, p1 \in Orders(DOMAIN m1) :
           \A o2, p2 \in Orders(DOMAIN m2) :
              LET a == PartitionMapValues(m1, m2, ii, i1, i2, oi, o1, o2)
                  b == PartitionMapValues(m2, m1, ii, i2, i1, oj, p2, p1)
              IN /\ SlotBag(b.unique_dir1) = SlotBag(a.unique_dir2)
                 /\ SlotBag(b.unique_dir2) = SlotBag(a.unique_dir1)
                 /\ SlotBag(b.intersection) = SlotBag(a.intersection)

\* the trees hold one file each, of different content: the two unique lists
\* differ, and the partition of the swapped mappings returns them swapped
C28_Witness ==
    /\ pc = "done" /\ AllFlags
    /\ result.unique_dir1 # Some(<<>>) /\ result.unique_dir2 # Some(<<>>)
    /\ result.unique_dir1 # result.unique_dir2
    /\ \E o1 \in Orders(DOMAIN combined[1]) : \E o2 \in Orders(DOMAIN combined[2]) :
          LET b == PartitionMapValues(combined[2], combined[1], TRUE, TRUE, TRUE, <<>>, o2, o1)
          IN b.unique_dir1 = result.unique_dir2 /\ b.unique_dir2 = result.unique_dir1

\* C29 (hidden test applies to the walk root): with skip_hidden, when the final
\* component of a root begins with a dot, the walk of that root yields nothing:
\* no path of its tree, hidden or not, is ever yielded, queued, received or
\* recorded in a mapping, and the returned triple reports no file of that tree:
\* a requested intersection and the requested unique list of that side are empty.
C29_HiddenRootPruned ==
    \A s \in Sides :
        (skip_hidden /\ IsHidden(Root(s))) =>
            /\ Yielded(s) = {}
            /\ todo[s] = <<>>
            /\ chan[s] = <<>>
            /\ \A n \in DOMAIN tree[s] : hist[AbsPath(s, n)].recv = 0
            /\ \A w \in Workers : wmap[w][s] = EmptyMap
            /\ combined[s] = EmptyMap
            /\ pc = "done" =>
                  /\ result.intersection \in {None, Some(<<>>)}
                  /\ UniqueSlot(s) \in {None, Some(<<>>)}

\* the left root is hidden and holds a plain file with the content of the file
\* of the right root, which is plain: the file of the right tree is returned as
\* unique, the intersection is empty
C29_Witness ==
    /\ pc = "done" /\ AllFlags /\ ~relative /\ skip_hidden
    /\ Root(1) = HiddenDir1 /\ Root(2) = Dir2
    /\ tree[1] = (<<"a">> :> "x")
    /\ tree[2] = (<<"a">> :> "x")
    /\ result = [intersection |-> Some(<<>>), unique_dir1 |-> Some(<<>>),
                 unique_dir2 |-> Some(<< AbsPath(2, <<"a">>) >>)]

\* the set main requested under the JSON key k
Requested(k) == IF k = "intersection" THEN RequestedIntersection(args)
                ELSE IF k = "directory1" THEN RequestedDir1(args)
                ELSE RequestedDir2(args)

\* the include flag the core was called with for the slot of key k
Passed(k) == IF k = "intersection" THEN opts.include_intersection
             ELSE IF k = "directory1" THEN opts.include_unique_dir1
             ELSE opts.include_unique_dir2

JsonKeys == {"intersection", "directory1", "directory2"}

\* C30 (the CLI never unwraps an absent slot): for all values of --intersection,
\* --dir1, --dir2 and --json, every slot the output code unwraps is one whose
\* include flag was passed as true to the core, and it is present in the
\* returned triple; the rendering never panics on an absent slot and main
\* returns.  In JSON mode one object is printed, whose keys are exactly those
\* of intersection, directory1, directory2 whose set was requested, each with
\* the displayed paths of its slot.
C30_NoUnwrapOfAbsentSlot ==
    /\ panic # "render_unwrap"
    /\ pc \in {"returned", "rendered"} =>
          \A k \in JsonKeys : Requested(k) => (Passed(k) /\ SlotOf(result, k) # None)
    /\ pc = "rendered" =>
          /\ proc.exit = Some(0)
          /\ args.json =>
                /\ Len(proc.stdout) = 1
                /\ DOMAIN proc.stdout[1].json = {k \in JsonKeys : Requested(k)}
                /\ \A k \in DOMAIN proc.stdout[1].json :
                      proc.stdout[1].json[k] = Displayed(SlotOf(result, k)[1])

\* --json --dir2 alone: the other two slots are absent and the object has the
\* one key directory2, with the file that is in the right tree only
C30_Witness ==
    /\ pc = "rendered"
    /\ args.json /\ args.dir2 /\ ~args.dir1 /\ ~args.intersection
    /\ result.intersection = None /\ result.unique_dir1 = None
    /\ DOMAIN proc.stdout[1].json = {"directory2"}
    /\ proc.stdout[1].json["directory2"] = << "d2/a" >>

====
